---------------------------- MODULE Spec2Model ----------------------------
(***************************************************************************)
(* A model of the tiled cost-map cache (pcdless::common::Area and          *)
(* HierarchicalCostMap) and of the camera particle corrector that scores   *)
(* particles against it.                                                   *)
(*                                                                         *)
(* World coordinates are integers: one unit is one sampling step of the    *)
(* scorer (0.1 m in the source).  Particle weights are integers counted in *)
(* units of min_prob, so min_prob is 1 and probability 1 is OneWeight.     *)
(***************************************************************************)
EXTENDS Integers, Sequences, FiniteSets, TLC

VARIABLES
  unit_length_,             \* Area::unit_length_ (static)
  area_image_size_,         \* Area::image_size_ (static)
  cloud_,                   \* HierarchicalCostMap::cloud_ (optional)
  bounding_boxes_,          \* HierarchicalCostMap::bounding_boxes_
  height_,                  \* HierarchicalCostMap::height_ (optional)
  geometry_loaded,          \* a line feature or a polygon has been loaded so far
  cost_maps_,               \* HierarchicalCostMap::cost_maps_ : Area -> tile
  map_accessed_,            \* HierarchicalCostMap::map_accessed_ : Area -> bool
  generated_map_history_,   \* HierarchicalCostMap::generated_map_history_
  builds,                   \* Area -> builder invocations since the Area was last evicted
  n_builds,                 \* builder invocations so far
  pc,                       \* position of lsdCallback ("idle" between callbacks)
  lsd_cloud,                \* lsdCallback: the sensed segments
  weighted_particles,       \* lsdCallback: the particle array being weighted
  idx,                      \* lsdCallback: next particle of the scoring loop
  last_mean_position_,      \* CameraParticleCorrector::last_mean_position_
  batch,                    \* lsdCallback so far: builder runs per Area, eraseObsolete calls
  points,                   \* InitArea: the labelled points of the message
  constructed,              \* InitArea: the constructor has run
  init_areas_,              \* InitArea::init_areas_
  deinit_areas_,            \* InitArea::deinit_areas_
  init_area,                \* the caller's bool that is_inside writes through init_area
  inside_out,               \* is_inside: query, value returned, the bool before the call
  area_in, area_out,        \* Area construction: arguments and outcomes
  score_in, score_out,      \* score_convert: raw scores and weights
  last                      \* what the last operation did (observation record)

---------------------------------------------------------------------------
(* Bounds of the model *)

\* builder invocations after which no further callback or lookup is started
MaxBuilds == 4
\* particles of one array
MaxParticles == 2
\* raw scores of score_convert range over -(max_raw_score_ + RawMargin) .. max_raw_score_ + RawMargin
RawMargin == 2
\* Area construction is explored for coordinates in -MaxCoord .. MaxCoord
MaxCoord == 3

---------------------------------------------------------------------------
(* Configuration *)

\* tile edge in world units (the max_range parameter)
max_range_ == 4
\* pixels per tile edge
image_size_ == 2
\* eviction threshold
max_map_count_ == 2
\* intensity written for a rasterised line feature
Peak == 255

Abs(a) == IF a < 0 THEN -a ELSE a
Min(a, b) == IF a < b THEN a ELSE b
Max(a, b) == IF a < b THEN b ELSE a

\* the points looked up directly: the first and the last point of the tile
\* at the origin, a point on the line marking of CloudA, the last point of a
\* tile at negative coordinates, and the first point of the tile to the right
Points == {<<0, 0>>, <<max_range_ - 1, max_range_ - 1>>, <<3, 0>>, <<-1, -1>>, <<max_range_, 0>>}
Pixels == (0 .. (image_size_ - 1)) \X (0 .. (image_size_ - 1))

---------------------------------------------------------------------------
(* Area: the tile key *)

\* a cast to an integer type: the quotient a / u rounded toward zero
TruncDiv(a, u) == IF a >= 0 THEN a \div u ELSE -((-a) \div u)

\* static_cast<long>(v / u) with the std::floor left out
CastWithoutFloor(a, u) == TruncDiv(a, u)

\* static_cast<long>(std::floor(v / u)) for u > 0
FloorDiv(a, u) == IF a >= 0 THEN a \div u ELSE -(((-a) + u - 1) \div u)

\* Area::Area(v) with unit_length_ = u > 0
AreaOf(v, u) == [x |-> FloorDiv(v[1], u), y |-> FloorDiv(v[2], u)]

\* operator==(one, other)
AreaEq(one, other) == one.x = other.x /\ one.y = other.y

\* a real_scale that puts the grid point at the centre of its tile
real_scale_centred(a, u) == <<a.x * u - u \div 2, a.y * u - u \div 2>>

\* Area::real_scale
real_scale(a, u) == <<a.x * u, a.y * u>>

\* Area::real_scale_boundary
real_scale_boundary(a, u) == <<real_scale(a, u),
                               <<real_scale(a, u)[1] + u, real_scale(a, u)[2] + u>> >>


\* what Area::Area(v) can do under unit_length_ = u: throw (line 23), or
\* produce a key.  With u = 0 the quotient is infinite or NaN and its
\* conversion to long is undefined: any key of UndefinedKeys may result.
UndefinedKeys == {-1, 0}
AreaCtor(v, u) ==
  IF u < 0 THEN {[err |-> TRUE, x |-> 0, y |-> 0]}
  ELSE IF u = 0 THEN {[err |-> FALSE, x |-> i, y |-> j] : i, j \in UndefinedKeys}
  ELSE {[err |-> FALSE, x |-> AreaOf(v, u).x, y |-> AreaOf(v, u).y]}

\* the Areas the lookups of the model can reach
\* size_t is modelled HashBits wide
HashBits == 15
HashMod == 2 ^ HashBits
\* 0x9e3779b9 of boost::hash_combine, reduced to HashBits bits
HashGolden == 31161

RECURSIVE Xor(_, _)
\* bitwise exclusive or of two naturals
Xor(a, b) == IF a = 0 THEN b ELSE IF b = 0 THEN a
             ELSE ((a + b) % 2) + 2 * Xor(a \div 2, b \div 2)

\* boost::hash_combine(seed, v): seed ^= v + 0x9e3779b9 + (seed << 6) + (seed >> 2)
hash_combine(seed, v) ==
  Xor(seed, ((v % HashMod) + HashGolden + ((seed * 64) % HashMod) + (seed \div 4))
            % HashMod)

\* Area::operator()(index): the hash of a key
AreaHash(a) == hash_combine(hash_combine(0, a.x), a.y)

\* the Areas the lookups of the model can reach
Areas == [x : -1 .. 1, y : -1 .. 0]

---------------------------------------------------------------------------
(* Reference geometry *)

\* a line feature: start point p, direction-bearing end point n, elevation z
Feature(px, py, nx, ny, z) == [p |-> <<px, py>>, n |-> <<nx, ny>>, z |-> z]

EmptyCloud == <<>>
\* one horizontal marking along the lower edge of Area (0,0)
CloudA == <<Feature(0, 0, 4, 0, 0)>>
Clouds == {EmptyCloud, CloudA}

\* a polygon: the axis-aligned rectangle [x0, x1) x [y0, y1)
Rect(x0, x1, y0, y1) == [x0 |-> x0, x1 |-> x1, y0 |-> y0, y1 |-> y1]
NoPolygons == <<>>
PolygonsA == <<Rect(0, 2, 0, 4)>>
PolygonSets == {NoPolygons, PolygonsA}

Heights == {5}
\* elevation gate of the builder
HeightTolerance == 2

NoCloud == [has |-> FALSE, v |-> EmptyCloud]
SomeCloud(c) == [has |-> TRUE, v |-> c]
NoHeight == [has |-> FALSE, v |-> 0]
SomeHeight(h) == [has |-> TRUE, v |-> h]

\* the reference geometry a build reads
Geometry(cloud, boxes, height) == [cloud |-> cloud, boxes |-> boxes, height |-> height]

---------------------------------------------------------------------------
(* Segments: walked at the fixed step *)

\* the sampling step of a segment walk
SampleStep == 1

Sgn(a) == IF a > 0 THEN 1 ELSE IF a < 0 THEN -1 ELSE 0
\* (n - p).norm() of an axis-aligned segment
SegLength(f) == Abs(f.n[1] - f.p[1]) + Abs(f.n[2] - f.p[2])
\* (n - p).normalized(); the zero vector stays the zero vector
Tangent(f) == <<Sgn(f.n[1] - f.p[1]), Sgn(f.n[2] - f.p[2])>>
\* for (distance = 0; distance <= l1; distance += step): the end point is
\* sampled too, and a zero-length segment once
SamplesInclusive(f) ==
  [k \in 1 .. (SegLength(f) \div SampleStep + 1) |->
     <<f.p[1] + Tangent(f)[1] * (k - 1) * SampleStep,
       f.p[2] + Tangent(f)[2] * (k - 1) * SampleStep>>]

\* for (distance = 0; distance < l1; distance += step): the sample points
Samples(f) ==
  [k \in 1 .. ((SegLength(f) + SampleStep - 1) \div SampleStep) |->
     <<f.p[1] + Tangent(f)[1] * (k - 1) * SampleStep,
       f.p[2] + Tangent(f)[2] * (k - 1) * SampleStep>>]

---------------------------------------------------------------------------
(* Pixel addressing *)

\* the float subtraction position - real_scale() may round a coordinate just
\* below the upper tile edge up to the edge: the rounding a lookup can see
RoundErrs(p, u) ==
  LET rel == <<p[1] - real_scale(AreaOf(p, u), u)[1], p[2] - real_scale(AreaOf(p, u), u)[2]>>
  IN  (IF rel[1] = u - 1 THEN {0, 1} ELSE {0}) \X (IF rel[2] = u - 1 THEN {0, 1} ELSE {0})

\* relative / max_range_ * image_size_, cast to int
RawPixel(area, p, e) ==
  <<TruncDiv((p[1] - real_scale(area, max_range_)[1] + e[1]) * image_size_, max_range_),
    TruncDiv((p[2] - real_scale(area, max_range_)[2] + e[2]) * image_size_, max_range_)>>

\* to_cv_point without the clamp
UnclampedPixel(area, p, e) == RawPixel(area, p, e)

\* to_cv_point: the pixel of p in the tile of area, clamped into the raster
to_cv_point(area, p, e) ==
  <<Max(0, Min(image_size_ - 1, RawPixel(area, p, e)[1])),
    Max(0, Min(image_size_ - 1, RawPixel(area, p, e)[2]))>>

---------------------------------------------------------------------------
(* Tile builder *)

NoRound == <<0, 0>>

\* the elevation gate: with a height set, features too far from it are skipped
HeightPasses(f, height) == (~height.has) \/ Abs(f.z - height.v) <= HeightTolerance

\* some sample of some admitted feature falls on pixel px of the tile of area
FeatureHits(area, px, geo) ==
  \E i \in 1 .. Len(geo.cloud.v) :
    /\ HeightPasses(geo.cloud.v[i], geo.height)
    /\ \E k \in 1 .. Len(Samples(geo.cloud.v[i])) :
         /\ AreaOf(Samples(geo.cloud.v[i])[k], max_range_) = area
         /\ to_cv_point(area, Samples(geo.cloud.v[i])[k], NoRound) = px

\* world position of the pixel's lower corner
PixelCorner(area, px) ==
  <<real_scale(area, max_range_)[1] + (px[1] * max_range_) \div image_size_,
    real_scale(area, max_range_)[2] + (px[2] * max_range_) \div image_size_>>

InRect(q, r) == r.x0 <= q[1] /\ q[1] < r.x1 /\ r.y0 <= q[2] /\ q[2] < r.y1

\* the pixel lies in some loaded polygon
Drivable(area, px, boxes) ==
  \E i \in 1 .. Len(boxes) : InRect(PixelCorner(area, px), boxes[i])

\* bearing of a feature quantised to the channel: 0..255 for 0..360 degrees
Bearing(f) == IF Tangent(f) = <<0, 1>> THEN 90
              ELSE IF Tangent(f) = <<-1, 0>> THEN 180
              ELSE IF Tangent(f) = <<0, -1>> THEN 270 ELSE 0
QuantisedBearing(f) == (Bearing(f) * 256) \div 360

\* a builder whose blank raster starts at full intensity
BuildTileWhite(area, geo) == [px \in Pixels |-> <<Peak, 0, 0>>]

\* build(area, line_features, polygons, height): <<intensity, direction, mask>>
\* per pixel; pixels outside every polygon are zeroed once polygons are loaded
BuildTile(area, geo) ==
  [px \in Pixels |->
     LET masked == Len(geo.boxes) > 0 /\ ~Drivable(area, px, geo.boxes)
         hit == FeatureHits(area, px, geo) /\ ~masked
     IN  <<IF hit THEN Peak ELSE 0,
           IF hit THEN QuantisedBearing(geo.cloud.v[1]) ELSE 0,
           IF Len(geo.boxes) > 0 /\ ~masked THEN 1 ELSE 0>>]

\* the gamma curve of exponent 4 applied to an intensity at read time
Gamma(i) == (((((i * i) \div 255) * i) \div 255) * i) \div 255

---------------------------------------------------------------------------
(* Tile store and cache facade, as operators on the store
   c = [maps, accessed, history, builds, n] *)

Store(maps, accessed, history, b, n) ==
  [maps |-> maps, accessed |-> accessed, history |-> history, builds |-> b, n |-> n]

EmptyMap == [a \in {} |-> 0]
EmptyStore == Store(EmptyMap, EmptyMap, <<>>, [a \in Areas |-> 0], 0)

\* f with key k bound to v
Put(f, k, v) == [a \in (DOMAIN f) \cup {k} |-> IF a = k THEN v ELSE f[a]]
\* f without key k
Erase(f, k) == [a \in (DOMAIN f) \ {k} |-> f[a]]

\* contains(area)
Contains(c, area) == area \in DOMAIN c.maps

\* a build_map that forgets the accessed mark
build_map_unmarked(c, area, geo) ==
  Store(Put(c.maps, area, BuildTile(area, geo)),
        c.accessed,
        Append(c.history, area),
        [c.builds EXCEPT ![area] = @ + 1],
        c.n + 1)

\* build_map(area): build the tile from the current geometry and insert it:
\* record the tile, mark it accessed, append the Area to the history
build_map(c, area, geo) ==
  Store(Put(c.maps, area, BuildTile(area, geo)),
        Put(c.accessed, area, TRUE),
        Append(c.history, area),
        [c.builds EXCEPT ![area] = @ + 1],
        c.n + 1)

\* a lookup that builds on every call, hit or miss
AlwaysBuild(c, area, geo) == build_map(c, area, geo)

\* the build-on-miss of a lookup
EnsureBuilt(c, area, geo) == IF Contains(c, area) THEN c ELSE build_map(c, area, geo)

\* the pixel px of a raster; a read outside the raster yields garbage
OutOfRange == <<-1, -1, -1>>
ReadPixel(tile, px) == IF px \in DOMAIN tile THEN tile[px] ELSE OutOfRange

\* at2(position): <<gamma-corrected intensity, direction>> of the pixel of
\* position, building the tile on a miss.  Yields the store after the call,
\* the value returned, and what the call did.
at2(c, geo, position, e) ==
  LET key == AreaOf(position, max_range_)
      c2 == EnsureBuilt(c, key, geo)
      px == to_cv_point(key, position, e)
  IN  [c |-> c2, key |-> key, px |-> px, miss |-> ~Contains(c, key),
       ret |-> <<Gamma(ReadPixel(c2.maps[key], px)[1]), ReadPixel(c2.maps[key], px)[2]>>]

\* at3(position): the three channels of the pixel, same build-on-miss
at3(c, geo, position, e) ==
  LET key == AreaOf(position, max_range_)
      c2 == EnsureBuilt(c, key, geo)
      px == to_cv_point(key, position, e)
  IN  [c |-> c2, key |-> key, px |-> px, miss |-> ~Contains(c, key),
       ret |-> ReadPixel(c2.maps[key], px)]

\* get_map_image(pose): the whole raster of the Area of the pose's position
get_map_image(c, geo, position) ==
  LET key == AreaOf(position, max_range_)
      c2 == EnsureBuilt(c, key, geo)
  IN  [c |-> c2, key |-> key, px |-> <<0, 0>>, miss |-> ~Contains(c, key),
       ret |-> c2.maps[key]]

\* an eviction round that drops the newest Area instead
EvictNewest(c) ==
  LET k == Len(c.history) IN
  Store(Erase(c.maps, c.history[k]),
        Erase(c.accessed, c.history[k]),
        SubSeq(c.history, 1, k - 1),
        [c.builds EXCEPT ![c.history[k]] = 0],
        c.n)

\* one round of the eviction loop: drop the oldest Area of the history from
\* the history, the tiles and the accessed marks
EvictOldest(c) ==
  Store(Erase(c.maps, Head(c.history)),
        Erase(c.accessed, Head(c.history)),
        Tail(c.history),
        [c.builds EXCEPT ![Head(c.history)] = 0],
        c.n)

RECURSIVE evict_obsolete(_, _)
\* while history.length > max_count: remove the oldest
evict_obsolete(c, max_count) ==
  IF Len(c.history) > max_count THEN evict_obsolete(EvictOldest(c), max_count) ELSE c

\* erase_obsolete(): evict with the configured max_map_count_
erase_obsolete(c) == evict_obsolete(c, max_map_count_)

\* show_map_range(): the world rectangles of the resident tiles
show_map_range(c) == {real_scale_boundary(a, max_range_) : a \in DOMAIN c.maps}

---------------------------------------------------------------------------
(* Scorer *)

\* score_offset parameter
score_offset_ == -1
\* max_raw_score parameter
max_raw_score_ == 3
\* far_weight_gain parameter
far_weight_gain_ == 0
\* min_prob is WeightBase^(-2 * max_raw_score_); weights count units of min_prob
WeightBase == 2
min_prob_ == 1

RECURSIVE Pow(_, _)
\* b^n, rounded down to an integer for n < 0
Pow(b, n) == IF n < 0 THEN 0 ELSE IF n = 0 THEN 1 ELSE b * Pow(b, n - 1)

\* probability 1 in units of min_prob
OneWeight == Pow(WeightBase, 2 * max_raw_score_)

\* std::clamp
Clamp(v, lo, hi) == IF v < lo THEN lo ELSE IF hi < v THEN hi ELSE v

\* std::exp(k * (raw / max_raw_score_ + 1)) with k = -log(min_prob_) / 2, which
\* is max_raw_score_ * log(WeightBase): WeightBase^(raw + max_raw_score_)
ExpK(raw) == Pow(WeightBase, raw + max_raw_score_)

\* score_convert without the clamp of the raw score
ConvertUnclamped(raw) == min_prob_ * ExpK(raw)

\* score_convert with the sign of the raw score flipped
ConvertFlipped(raw) == min_prob_ * ExpK(Clamp(-raw, -max_raw_score_, max_raw_score_))

\* the score_convert lambda of lsdCallback
score_convert(raw) == min_prob_ * ExpK(Clamp(raw, -max_raw_score_, max_raw_score_))

\* std::exp(-far_weight_gain_ * squared_norm), rounded down to an integer
Gain(squared_norm) == IF far_weight_gain_ * squared_norm = 0 THEN 1 ELSE 0

\* absCos(t, deg) for a unit or zero tangent t and the stored bearing 0
AbsCos(t, deg) == IF deg = 0 THEN Abs(t[1]) ELSE 0

SquaredNorm(a, b) == (a[1] - b[1]) * (a[1] - b[1]) + (a[2] - b[2]) * (a[2] - b[2])

\* transformCloud by a pose that is a pure translation
transformCloud(src, t) ==
  [i \in 1 .. Len(src) |->
     [p |-> <<src[i].p[1] + t[1], src[i].p[2] + t[2]>>,
      n |-> <<src[i].n[1] + t[1], src[i].n[2] + t[2]>>, z |-> src[i].z]]

\* the sample points of a cloud in the order computeScore visits them
RECURSIVE AllSamples(_)
AllSamples(cloud) ==
  IF cloud = <<>> THEN <<>>
  ELSE [k \in 1 .. Len(Samples(Head(cloud))) |->
          [p |-> Samples(Head(cloud))[k], t |-> Tangent(Head(cloud))]]
       \o AllSamples(Tail(cloud))

RECURSIVE ScoreSamples(_, _, _, _, _)
\* the loop body of computeScore over the remaining samples: the store after
\* the lookups and the accumulated score
ScoreSamples(c, geo, samples, self_position, score) ==
  IF samples = <<>> THEN [c |-> c, score |-> score]
  ELSE LET r == at2(c, geo, Head(samples).p, NoRound)
           gain == Gain(SquaredNorm(Head(samples).p, self_position))
       IN  ScoreSamples(r.c, geo, Tail(samples), self_position,
             score + gain * (AbsCos(Head(samples).t, r.ret[2]) * r.ret[1] + score_offset_))

\* computeScore(lsd_cloud, self_position)
computeScore(c, geo, cloud, self_position) ==
  ScoreSamples(c, geo, AllSamples(cloud), self_position, 0)

\* evaluateCloud(lsd_cloud, self_position): the same lookups, scores per point
evaluateCloud(c, geo, cloud, self_position) ==
  ScoreSamples(c, geo, AllSamples(cloud), self_position, 0)

RECURSIVE WeightedSum(_, _)
WeightedSum(ps, k) ==
  IF ps = <<>> THEN 0 ELSE Head(ps).weight * Head(ps).pose[k] + WeightedSum(Tail(ps), k)
RECURSIVE SumWeight(_)
SumWeight(ps) == IF ps = <<>> THEN 0 ELSE Head(ps).weight + SumWeight(Tail(ps))

\* meanPose(particles): the weighted mean of the particle positions
meanPose(ps) ==
  <<TruncDiv(WeightedSum(ps, 1), SumWeight(ps)), TruncDiv(WeightedSum(ps, 2), SumWeight(ps))>>

---------------------------------------------------------------------------
(* State *)

vars == <<unit_length_, area_image_size_, cloud_, bounding_boxes_, height_, geometry_loaded,
          cost_maps_,
          map_accessed_, generated_map_history_, builds, n_builds, pc, lsd_cloud,
          weighted_particles, idx, last_mean_position_, batch, points, constructed,
          init_areas_, deinit_areas_, init_area, inside_out, area_in, area_out,
          score_in, score_out, last>>

area_vars == <<unit_length_, area_image_size_, area_in, area_out>>
init_area_vars == <<points, constructed, init_areas_, deinit_areas_, init_area, inside_out>>
score_vars == <<score_in, score_out>>
geo_vars == <<cloud_, bounding_boxes_, height_, geometry_loaded>>
store_vars == <<cost_maps_, map_accessed_, generated_map_history_, builds, n_builds>>
lsd_vars == <<pc, lsd_cloud, weighted_particles, idx, last_mean_position_, batch>>

CurStore == Store(cost_maps_, map_accessed_, generated_map_history_, builds, n_builds)
CurGeo == Geometry(cloud_, bounding_boxes_, height_)

SetStore(c) ==
  /\ cost_maps_' = c.maps
  /\ map_accessed_' = c.accessed
  /\ generated_map_history_' = c.history
  /\ builds' = c.builds
  /\ n_builds' = c.n

\* what an operation did: its name, the Area it addressed, the pixel it
\* computed (px[1]) and the pixel it read (px[2]), whether it missed, what it
\* returned, and the Areas it removed
Obs(op, key, px, miss, ret, evicted) ==
  [op |-> op, key |-> key, raw |-> px[1], px |-> px[2], miss |-> miss, ret |-> ret,
   evicted |-> evicted]

NoKey == [x |-> 0, y |-> 0]
NoPixel == <<<<0, 0>>, <<0, 0>>>>
NoObs == Obs("none", NoKey, NoPixel, FALSE, <<>>, <<>>)

\* what one lsdCallback has done to the cache so far: the builder runs per
\* Area and the calls of eraseObsolete
NoBatch == [built |-> [a \in Areas |-> 0], evictions |-> 0]
\* the builder runs of a step that takes the store from c to c2 without evicting
Built(b, c, c2) ==
  [b EXCEPT !.built = [a \in Areas |-> b.built[a] + (c2.builds[a] - c.builds[a])]]

\* the sensed segment clouds, in the sensor frame: one horizontal segment,
\* and a zero-length segment followed by a vertical one
LsdEmpty == <<>>
LsdA == <<Feature(0, 0, 2, 0, 0)>>
LsdB == <<Feature(1, 0, 1, 0, 0), Feature(0, 0, 0, -3, 0)>>
LsdClouds == {LsdA, LsdB}

\* particle positions (orientation is the identity)
ParticlePoses == {<<3, 0>>, <<-3, -1>>}
ParticleArrays ==
  UNION {[1 .. k -> [pose : ParticlePoses, weight : {min_prob_}]] : k \in 1 .. MaxParticles}

\* values last_mean_position_ starts with
InitialMeans == {<<0, 0>>}

TypeOK ==
  /\ pc \in {"idle", "score", "publish", "markers", "debug"}
  /\ DOMAIN cost_maps_ \subseteq Areas
  /\ n_builds \in Nat

\* no InitArea object
NoInitAreaObject ==
  /\ points = <<>>
  /\ constructed = FALSE
  /\ init_areas_ = <<>>
  /\ deinit_areas_ = <<>>
  /\ init_area = FALSE
  /\ inside_out = <<>>

\* the corrector after construction: an empty cache, no geometry
InitCorrector ==
  /\ cloud_ = NoCloud
  /\ bounding_boxes_ = NoPolygons
  /\ height_ = NoHeight
  /\ geometry_loaded = FALSE
  /\ cost_maps_ = EmptyStore.maps
  /\ map_accessed_ = EmptyStore.accessed
  /\ generated_map_history_ = EmptyStore.history
  /\ builds = EmptyStore.builds
  /\ n_builds = EmptyStore.n
  /\ pc = "idle"
  /\ lsd_cloud = LsdEmpty
  /\ weighted_particles = <<>>
  /\ idx = 0
  /\ last_mean_position_ \in InitialMeans
  /\ batch = NoBatch
  /\ last = NoObs

\* the constructor of HierarchicalCostMap has set the tiling parameters
Init ==
  /\ unit_length_ = max_range_
  /\ area_image_size_ = image_size_
  /\ area_in = <<>>
  /\ area_out = <<>>
  /\ score_in = <<>>
  /\ score_out = <<>>
  /\ NoInitAreaObject
  /\ InitCorrector

---------------------------------------------------------------------------
(* Cache operations called directly *)

\* at2(position)
Lookup2(position, e) ==
  /\ pc = "idle" /\ n_builds < MaxBuilds
  /\ LET r == at2(CurStore, CurGeo, position, e) IN
       /\ SetStore(r.c)
       /\ last' = Obs("at2", r.key, <<RawPixel(r.key, position, e), r.px>>, r.miss, r.ret, <<>>)
  /\ UNCHANGED <<init_area_vars, area_vars, score_vars, geo_vars, lsd_vars>>

\* at3(position)
Lookup3(position, e) ==
  /\ pc = "idle" /\ n_builds < MaxBuilds
  /\ LET r == at3(CurStore, CurGeo, position, e) IN
       /\ SetStore(r.c)
       /\ last' = Obs("at3", r.key, <<RawPixel(r.key, position, e), r.px>>, r.miss, r.ret, <<>>)
  /\ UNCHANGED <<init_area_vars, area_vars, score_vars, geo_vars, lsd_vars>>

\* erase_obsolete()
Evict ==
  /\ pc = "idle"
  /\ SetStore(erase_obsolete(CurStore))
  /\ last' = Obs("evict", last.key, NoPixel, last.miss, <<last.op>>,
                 SubSeq(generated_map_history_, 1,
                        Len(generated_map_history_) - Len(erase_obsolete(CurStore).history)))
  /\ UNCHANGED <<init_area_vars, area_vars, score_vars, geo_vars, lsd_vars>>

\* set_bounding_box(cloud)
SetBoundingBox(boxes) ==
  /\ pc = "idle"
  /\ bounding_boxes_' = boxes
  /\ geometry_loaded' = (geometry_loaded \/ Len(boxes) > 0)
  /\ last' = Obs("set_bounding_box", NoKey, NoPixel, FALSE, <<>>, <<>>)
  /\ UNCHANGED <<init_area_vars, area_vars, score_vars, cloud_, height_, store_vars, lsd_vars>>

\* set_height(height)
SetHeight(h) ==
  /\ pc = "idle"
  /\ height_' = SomeHeight(h)
  /\ geometry_loaded' = geometry_loaded
  /\ last' = Obs("set_height", NoKey, NoPixel, FALSE, <<>>, <<>>)
  /\ UNCHANGED <<init_area_vars, area_vars, score_vars, cloud_, bounding_boxes_, store_vars, lsd_vars>>

---------------------------------------------------------------------------
(* Callbacks of the corrector *)

\* an ll2Callback that also drops every tile built so far
ll2CallbackInvalidating(cloud) ==
  /\ pc = "idle"
  /\ cloud_' = SomeCloud(cloud)
  /\ geometry_loaded' = (geometry_loaded \/ Len(cloud) > 0)
  /\ SetStore(Store(EmptyMap, EmptyMap, <<>>, [a \in Areas |-> 0], n_builds))
  /\ last' = Obs("set_cloud", NoKey, NoPixel, FALSE, <<>>, <<>>)
  /\ UNCHANGED <<init_area_vars, area_vars, score_vars, bounding_boxes_, height_, lsd_vars>>

\* ll2Callback: set_cloud(ll2_cloud)
ll2Callback(cloud) ==
  /\ pc = "idle"
  /\ cloud_' = SomeCloud(cloud)
  /\ geometry_loaded' = (geometry_loaded \/ Len(cloud) > 0)
  /\ last' = Obs("set_cloud", NoKey, NoPixel, FALSE, <<>>, <<>>)
  /\ UNCHANGED <<init_area_vars, area_vars, score_vars, bounding_boxes_, height_, store_vars, lsd_vars>>

\* a poseCallback that the executor starts whatever lsdCallback is doing
poseCallbackReentrant(position) ==
  /\ n_builds < MaxBuilds
  /\ LET r == get_map_image(CurStore, CurGeo, position) IN
       /\ SetStore(r.c)
       /\ last' = Obs("get_map_image", r.key, NoPixel, r.miss, r.ret, <<>>)
  /\ UNCHANGED <<init_area_vars, area_vars, score_vars, geo_vars, lsd_vars>>

\* poseCallback: publish get_map_image(pose)
poseCallback(position) ==
  /\ pc = "idle" /\ n_builds < MaxBuilds
  /\ LET r == get_map_image(CurStore, CurGeo, position) IN
       /\ SetStore(r.c)
       /\ last' = Obs("get_map_image", r.key, NoPixel, r.miss, r.ret, <<>>)
  /\ UNCHANGED <<init_area_vars, area_vars, score_vars, geo_vars, lsd_vars>>

\* an lsdCallback that evicts and publishes the markers before it looks for
\* the particle array
lsdCallbackNoArrayEvicting ==
  /\ pc = "idle"
  /\ SetStore(erase_obsolete(CurStore))
  /\ last' = Obs("lsd_return", NoKey, NoPixel, FALSE,
                 <<show_map_range(erase_obsolete(CurStore))>>, <<>>)
  /\ UNCHANGED <<init_area_vars, area_vars, score_vars, geo_vars, lsd_vars>>

\* lsdCallback, lines 38-41: no synchronized particle array, return
lsdCallbackNoArray ==
  /\ pc = "idle"
  /\ last' = Obs("lsd_return", NoKey, NoPixel, FALSE, <<>>, <<>>)
  /\ UNCHANGED <<init_area_vars, area_vars, score_vars, geo_vars, store_vars, lsd_vars>>

\* lsdCallback, lines 38-56: a synchronized array and the sensed cloud
lsdCallbackBegin(cloud, array) ==
  /\ pc = "idle" /\ n_builds < MaxBuilds
  /\ pc' = "score"
  /\ lsd_cloud' = cloud
  /\ weighted_particles' = array
  /\ idx' = 1
  /\ batch' = NoBatch
  /\ last' = Obs("lsd_begin", NoKey, NoPixel, FALSE, <<>>, <<>>)
  /\ UNCHANGED <<init_area_vars, area_vars, score_vars, geo_vars, store_vars, last_mean_position_>>

\* a round of the particle loop that evicts as soon as the particle is scored
lsdCallbackScoreEvicting ==
  /\ pc = "score" /\ idx <= Len(weighted_particles)
  /\ LET pose == weighted_particles[idx].pose
         r == computeScore(CurStore, CurGeo, transformCloud(lsd_cloud, pose), pose)
     IN  /\ SetStore(erase_obsolete(r.c))
         /\ batch' = [Built(batch, CurStore, r.c) EXCEPT !.evictions = @ + 1]
         /\ weighted_particles' =
              [weighted_particles EXCEPT ![idx].weight = score_convert(r.score)]
         /\ last' = Obs("lsd_score", AreaOf(pose, max_range_), NoPixel, FALSE, <<r.score>>, <<>>)
  /\ idx' = idx + 1
  /\ UNCHANGED <<init_area_vars, area_vars, score_vars, geo_vars, pc, lsd_cloud, last_mean_position_>>

\* lsdCallback, lines 58-64: one round of the particle loop
lsdCallbackScore ==
  /\ pc = "score" /\ idx <= Len(weighted_particles)
  /\ LET pose == weighted_particles[idx].pose
         r == computeScore(CurStore, CurGeo, transformCloud(lsd_cloud, pose), pose)
     IN  /\ SetStore(r.c)
         /\ batch' = Built(batch, CurStore, r.c)
         /\ weighted_particles' =
              [weighted_particles EXCEPT ![idx].weight = score_convert(r.score)]
         /\ last' = Obs("lsd_score", AreaOf(pose, max_range_), NoPixel, FALSE, <<r.score>>, <<>>)
  /\ idx' = idx + 1
  /\ UNCHANGED <<init_area_vars, area_vars, score_vars, geo_vars, pc, lsd_cloud, last_mean_position_>>

\* lsdCallback with the eviction of line 66 left out
lsdCallbackNoEvict ==
  /\ pc = "score" /\ idx > Len(weighted_particles)
  /\ pc' = "publish"
  /\ last' = Obs("lsd_evict", NoKey, NoPixel, FALSE, <<>>, <<>>)
  /\ UNCHANGED <<init_area_vars, area_vars, score_vars, geo_vars, store_vars, lsd_cloud, weighted_particles, idx,
                 last_mean_position_, batch>>

\* lsdCallback, line 66: eviction after the loop
lsdCallbackEvict ==
  /\ pc = "score" /\ idx > Len(weighted_particles)
  /\ SetStore(erase_obsolete(CurStore))
  /\ batch' = [batch EXCEPT !.evictions = @ + 1]
  /\ pc' = "publish"
  /\ last' = Obs("lsd_evict", NoKey, NoPixel, FALSE, <<>>,
                 SubSeq(generated_map_history_, 1,
                        Len(generated_map_history_) - Len(erase_obsolete(CurStore).history)))
  /\ UNCHANGED <<init_area_vars, area_vars, score_vars, geo_vars, lsd_cloud, weighted_particles, idx,
                 last_mean_position_>>

\* a publication step that also hands the array over at squared distance 1
lsdCallbackPublishAtOne ==
  /\ pc = "publish"
  /\ LET mean_position == meanPose(weighted_particles) IN
       IF SquaredNorm(mean_position, last_mean_position_) >= 1
       THEN /\ last_mean_position_' = mean_position
            /\ last' = Obs("lsd_weighted", AreaOf(mean_position, max_range_), NoPixel, FALSE,
                           weighted_particles, <<>>)
       ELSE /\ last_mean_position_' = last_mean_position_
            /\ last' = Obs("lsd_skip", AreaOf(mean_position, max_range_), NoPixel, FALSE,
                           <<>>, <<>>)
  /\ pc' = "markers"
  /\ UNCHANGED <<init_area_vars, area_vars, score_vars, geo_vars, store_vars, lsd_cloud, weighted_particles, idx,
                 batch>>

\* lsdCallback, lines 69-76: hand the array to the filter unless the mean
\* position has hardly moved
lsdCallbackPublish ==
  /\ pc = "publish"
  /\ LET mean_position == meanPose(weighted_particles) IN
       IF SquaredNorm(mean_position, last_mean_position_) > 1
       THEN /\ last_mean_position_' = mean_position
            /\ last' = Obs("lsd_weighted", AreaOf(mean_position, max_range_), NoPixel, FALSE,
                           weighted_particles, <<>>)
       ELSE /\ last_mean_position_' = last_mean_position_
            /\ last' = Obs("lsd_skip", AreaOf(mean_position, max_range_), NoPixel, FALSE,
                           <<>>, <<>>)
  /\ pc' = "markers"
  /\ UNCHANGED <<init_area_vars, area_vars, score_vars, geo_vars, store_vars, lsd_cloud, weighted_particles, idx,
                 batch>>

\* lsdCallback, line 78: publish the ranges of the resident tiles
lsdCallbackMarkers ==
  /\ pc = "markers"
  /\ pc' = "debug"
  /\ last' = Obs("lsd_markers", NoKey, NoPixel, FALSE, show_map_range(CurStore), <<>>)
  /\ UNCHANGED <<init_area_vars, area_vars, score_vars, geo_vars, store_vars, lsd_cloud, weighted_particles, idx,
                 last_mean_position_, batch>>

\* lsdCallback, lines 81-87: score the cloud at the mean pose for display
lsdCallbackDebug ==
  /\ pc = "debug"
  /\ LET mean_position == meanPose(weighted_particles)
         r == evaluateCloud(CurStore, CurGeo, transformCloud(lsd_cloud, mean_position),
                            mean_position)
     IN  /\ SetStore(r.c)
         /\ last' = Obs("lsd_debug", AreaOf(mean_position, max_range_), NoPixel, FALSE,
                        <<r.score>>, <<>>)
  /\ pc' = "idle"
  /\ lsd_cloud' = LsdEmpty
  /\ weighted_particles' = <<>>
  /\ idx' = 0
  /\ batch' = NoBatch
  /\ UNCHANGED <<init_area_vars, area_vars, score_vars, geo_vars, last_mean_position_>>

\* the corrector node: its three callbacks
Next ==
  \/ \E c \in Clouds : ll2Callback(c)
  \/ \E p \in Points : poseCallback(p)
  \/ lsdCallbackNoArray
  \/ \E c \in LsdClouds : \E a \in ParticleArrays : lsdCallbackBegin(c, a)
  \/ lsdCallbackScore
  \/ lsdCallbackEvict
  \/ lsdCallbackPublish
  \/ lsdCallbackMarkers
  \/ lsdCallbackDebug

Spec == Init /\ [][Next]_vars

\* the cache facade called directly
NextCache ==
  \/ \E p \in Points : \E e \in RoundErrs(p, max_range_) : Lookup2(p, e)
  \/ \E p \in Points : \E e \in RoundErrs(p, max_range_) : Lookup3(p, e)
  \/ \E p \in Points : poseCallback(p)
  \/ Evict
  \/ \E c \in Clouds : ll2Callback(c)
  \/ \E b \in PolygonSets : SetBoundingBox(b)
  \/ \E h \in Heights : SetHeight(h)

SpecCache == Init /\ [][NextCache]_vars

---------------------------------------------------------------------------
(* Area construction under any tiling parameters *)

\* values of Area::unit_length_: unset (negative), zero, and two tile edges
UnitLengths == {-1, 0, 2, 3}
\* values of Area::image_size_
ImageSizes == {0, image_size_}
Coords == (-MaxCoord) .. MaxCoord

InitArea ==
  /\ unit_length_ \in UnitLengths
  /\ area_image_size_ \in ImageSizes
  /\ area_in \in (Coords \X Coords) \X (Coords \X Coords)
  /\ area_out = <<>>
  /\ score_in = <<>>
  /\ score_out = <<>>
  /\ NoInitAreaObject
  /\ InitCorrector

\* Area(p) and Area(q) for the two points of area_in
AreaConstruct ==
  /\ area_out = <<>>
  /\ \E a \in AreaCtor(area_in[1], unit_length_) :
       \E b \in AreaCtor(area_in[2], unit_length_) : area_out' = <<a, b>>
  /\ UNCHANGED <<init_area_vars, unit_length_, area_image_size_, area_in, score_vars, geo_vars,
                 store_vars,
                 lsd_vars, last>>

NextArea == AreaConstruct

SpecArea == InitArea /\ [][NextArea]_vars

---------------------------------------------------------------------------
(* score_convert on any pair of raw scores *)

RawScores == (-(max_raw_score_ + RawMargin)) .. (max_raw_score_ + RawMargin)

InitScore ==
  /\ unit_length_ = max_range_
  /\ area_image_size_ = image_size_
  /\ area_in = <<>>
  /\ area_out = <<>>
  /\ score_in \in RawScores \X RawScores
  /\ score_out = <<>>
  /\ NoInitAreaObject
  /\ InitCorrector

\* particle.weight = score_convert(raw_score), for two particles
ScoreConvert ==
  /\ score_out = <<>>
  /\ score_out' = <<score_convert(score_in[1]), score_convert(score_in[2])>>
  /\ UNCHANGED <<init_area_vars, area_vars, score_in, geo_vars, store_vars, lsd_vars, last>>

NextScore == ScoreConvert

SpecScore == InitScore /\ [][NextScore]_vars

---------------------------------------------------------------------------
(* InitArea: the polygons of a labelled point cloud *)

\* pieces a message is put together from (at most)
MaxPieces == 3

\* labels below LabelThreshold mark init areas, the others deinit areas
LabelThreshold == 512
Labels == {0, LabelThreshold - 1, LabelThreshold}

\* a point of the message: pcl::PointXYZL
LabelledPoint(x, y, label) == [x |-> x, y |-> y, label |-> label]

\* outlines: a big triangle, a small triangle inside it, a single point
Outlines == {<<<<0, 0>>, <<0, 6>>, <<6, 0>>>>,
             <<<<1, 1>>, <<1, 5>>, <<5, 1>>>>,
             <<<<5, 5>>>>}

\* an outline with every point labelled l
Piece(outline, l) ==
  [i \in 1 .. Len(outline) |-> LabelledPoint(outline[i][1], outline[i][2], l)]

Pieces == {Piece(o, l) : o \in Outlines, l \in Labels}

RECURSIVE Concat(_)
Concat(seqs) == IF seqs = <<>> THEN <<>> ELSE Head(seqs) \o Concat(Tail(seqs))

\* the point sequences of the messages
LabelledClouds == {Concat(ps) : ps \in UNION {[1 .. k -> Pieces] : k \in 0 .. MaxPieces}}

\* the points is_inside is asked about
Queries == {<<2, 2>>, <<1, 1>>, <<5, 5>>, <<0, 3>>, <<3, 1>>}

\* std::optional<uint32_t>: <<>> is std::nullopt
NullOpt == <<>>
\* operator<(const std::optional<T> &, const U &): nullopt is less than any value
OptLess(opt, v) == IF opt = NullOpt THEN TRUE ELSE opt[1] < v

\* if (last_label < 512) init_areas_.push_back(poly); else deinit_areas_.push_back(poly);
PushArea(areas, last_label, poly) ==
  IF OptLess(last_label, LabelThreshold)
  THEN [areas EXCEPT !.init = Append(@, poly)]
  ELSE [areas EXCEPT !.deinit = Append(@, poly)]

RECURSIVE InitAreaLoopNoClear(_, _, _, _)
\* the loop of the constructor without poly.outer().clear()
InitAreaLoopNoClear(pts, poly, last_label, areas) ==
  IF pts = <<>> THEN [poly |-> poly, last_label |-> last_label, areas |-> areas]
  ELSE LET p == Head(pts)
           changed == last_label # NullOpt /\ last_label[1] # p.label
       IN  InitAreaLoopNoClear(Tail(pts), Append(poly, <<p.x, p.y>>), <<p.label>>,
                               IF changed THEN PushArea(areas, last_label, poly) ELSE areas)

RECURSIVE InitAreaLoop(_, _, _, _)
\* the loop of the constructor over the remaining points
InitAreaLoop(pts, poly, last_label, areas) ==
  IF pts = <<>> THEN [poly |-> poly, last_label |-> last_label, areas |-> areas]
  ELSE LET p == Head(pts)
           changed == last_label # NullOpt /\ last_label[1] # p.label
       IN  InitAreaLoop(Tail(pts),
                        Append(IF changed THEN <<>> ELSE poly, <<p.x, p.y>>),
                        <<p.label>>,
                        IF changed THEN PushArea(areas, last_label, poly) ELSE areas)

NoAreas == [init |-> <<>>, deinit |-> <<>>]

\* InitArea::InitArea(msg)
InitAreaCtor(pts) ==
  IF pts = <<>> THEN NoAreas
  ELSE LET r == InitAreaLoop(pts, <<>>, NullOpt, NoAreas)
       IN  PushArea(r.areas, r.last_label, r.poly)

\* the edge of poly that starts at its i-th point (the ring closes itself)
EdgeOf(poly, i) == <<poly[i], poly[(i % Len(poly)) + 1]>>

Cross(a, b, q) == (b[1] - a[1]) * (q[2] - a[2]) - (b[2] - a[2]) * (q[1] - a[1])

\* q lies on the segment from a to b
OnEdge(q, a, b) ==
  /\ Cross(a, b, q) = 0
  /\ Min(a[1], b[1]) <= q[1] /\ q[1] <= Max(a[1], b[1])
  /\ Min(a[2], b[2]) <= q[2] /\ q[2] <= Max(a[2], b[2])

\* the ray from q towards +x crosses the segment from a to b
RayCrosses(q, a, b) ==
  /\ (a[2] > q[2]) # (b[2] > q[2])
  /\ IF b[2] > a[2] THEN Cross(a, b, q) > 0 ELSE Cross(a, b, q) < 0

\* boost::geometry::within(query, poly): query is in the interior of poly
Within(q, poly) ==
  /\ \A i \in 1 .. Len(poly) : ~OnEdge(q, EdgeOf(poly, i)[1], EdgeOf(poly, i)[2])
  /\ Cardinality({i \in 1 .. Len(poly) :
                    RayCrosses(q, EdgeOf(poly, i)[1], EdgeOf(poly, i)[2])}) % 2 = 1

\* an is_inside that looks at the deinit areas first
is_inside_deinit_first(init, deinit, xyz, flag) ==
  IF init = <<>> /\ deinit = <<>> THEN [ret |-> FALSE, init_area |-> flag]
  ELSE IF \E i \in 1 .. Len(deinit) : Within(xyz, deinit[i])
       THEN [ret |-> TRUE, init_area |-> FALSE]
  ELSE IF \E i \in 1 .. Len(init) : Within(xyz, init[i])
       THEN [ret |-> TRUE, init_area |-> TRUE]
  ELSE [ret |-> FALSE, init_area |-> flag]

\* InitArea::is_inside(xyz, init_area): the value returned and *init_area
\* after the call, flag being *init_area before it
is_inside(init, deinit, xyz, flag) ==
  IF init = <<>> /\ deinit = <<>> THEN [ret |-> FALSE, init_area |-> flag]
  ELSE IF \E i \in 1 .. Len(init) : Within(xyz, init[i])
       THEN [ret |-> TRUE, init_area |-> TRUE]
  ELSE IF \E i \in 1 .. Len(deinit) : Within(xyz, deinit[i])
       THEN [ret |-> TRUE, init_area |-> FALSE]
  ELSE [ret |-> FALSE, init_area |-> flag]

\* a message has arrived; the caller's bool holds either value
InitInitArea ==
  /\ unit_length_ = max_range_
  /\ area_image_size_ = image_size_
  /\ area_in = <<>>
  /\ area_out = <<>>
  /\ score_in = <<>>
  /\ score_out = <<>>
  /\ InitCorrector
  /\ points \in LabelledClouds
  /\ constructed = FALSE
  /\ init_areas_ = <<>>
  /\ deinit_areas_ = <<>>
  /\ init_area \in BOOLEAN
  /\ inside_out = <<>>

\* InitArea area(msg)
InitAreaConstruct ==
  /\ ~constructed
  /\ constructed' = TRUE
  /\ init_areas_' = InitAreaCtor(points).init
  /\ deinit_areas_' = InitAreaCtor(points).deinit
  /\ UNCHANGED <<points, init_area, inside_out, area_vars, score_vars, geo_vars, store_vars,
                 lsd_vars, last>>

\* area.is_inside(xyz, &init_area)
IsInside(xyz) ==
  /\ constructed
  /\ LET r == is_inside(init_areas_, deinit_areas_, xyz, init_area) IN
       /\ init_area' = r.init_area
       /\ inside_out' = <<xyz, r.ret, init_area>>
  /\ UNCHANGED <<points, constructed, init_areas_, deinit_areas_, area_vars, score_vars,
                 geo_vars, store_vars, lsd_vars, last>>

NextInitArea ==
  \/ InitAreaConstruct
  \/ \E q \in Queries : IsInside(q)

SpecInitArea == InitInitArea /\ [][NextInitArea]_vars

---------------------------------------------------------------------------
(* Properties *)

Range(seq) == {seq[i] : i \in DOMAIN seq}
Resident == DOMAIN cost_maps_
IsLookup(o) == o.op \in {"at2", "at3", "get_map_image"}

\* C1 as stated: in every state the number of resident tiles is at most
\* max_map_count_, whatever lookups have run.
C1_Original == Cardinality(Resident) <= max_map_count_

\* C1 amended: right after the eviction of lsdCallback at most max_map_count_
\* tiles are resident; when the batch left three or more tiles behind, exactly
\* max_map_count_ remain and none of the removed Areas, the first-built among
\* them, is contained any more.
C1_BoundAfterEviction ==
  last.op = "lsd_evict" =>
    /\ Cardinality(Resident) <= max_map_count_
    /\ Len(last.evicted) > 0 =>
         /\ Cardinality(Resident) = max_map_count_
         /\ \A i \in DOMAIN last.evicted : last.evicted[i] \notin Resident

C1_Witness ==
  /\ last.op = "lsd_evict"
  /\ Len(last.evicted) = 1
  /\ Cardinality(Resident) = max_map_count_

\* C2: evict() removes exactly the max(0, n - max_map_count_) Areas at the
\* front of the creation history, in that order, from history, tiles and
\* accessed marks, and keeps every other tile as it was.
C2_EvictRemovesOldest ==
  [][last'.op = "evict" =>
       LET n == Len(generated_map_history_)
           k == Max(0, n - max_map_count_)
           gone == Range(SubSeq(generated_map_history_, 1, k))
       IN  /\ generated_map_history_' = SubSeq(generated_map_history_, k + 1, n)
           /\ last'.evicted = SubSeq(generated_map_history_, 1, k)
           /\ DOMAIN cost_maps_' = (DOMAIN cost_maps_) \ gone
           /\ DOMAIN map_accessed_' = (DOMAIN map_accessed_) \ gone
           /\ \A a \in DOMAIN cost_maps_' :
                cost_maps_'[a] = cost_maps_[a] /\ map_accessed_'[a] = map_accessed_[a]
  ]_vars

\* the oldest tile was hit by the lookup just before the eviction, and was
\* removed all the same
C2_Witness ==
  /\ last.op = "evict"
  /\ last.ret = <<"at2">>
  /\ ~last.miss
  /\ Len(last.evicted) > 0
  /\ last.key = last.evicted[1]
  /\ last.key \notin Resident

\* C3: the builder runs at most once for an Area between its evictions, only
\* on a lookup that misses, and no step changes a tile that stays resident.
C3_BuildOnce ==
  [][/\ \A a \in Areas : builds'[a] <= 1
     /\ \A a \in (DOMAIN cost_maps_) \cap (DOMAIN cost_maps_') : cost_maps_'[a] = cost_maps_[a]
     /\ n_builds' # n_builds =>
          /\ IsLookup(last') /\ last'.miss
          /\ n_builds' = n_builds + 1
          /\ last'.key \notin DOMAIN cost_maps_
     /\ (IsLookup(last') /\ ~last'.miss) => (n_builds' = n_builds /\ cost_maps_' = cost_maps_)
  ]_vars

\* a repeated lookup of a resident tile, after other tiles were evicted
C3_Witness ==
  /\ last.op = "at2"
  /\ ~last.miss
  /\ builds[last.key] = 1
  /\ n_builds > Cardinality(Resident)

ConsistentStore ==
  /\ \A i, j \in DOMAIN generated_map_history_ :
       generated_map_history_[i] = generated_map_history_[j] => i = j
  /\ Range(generated_map_history_) = DOMAIN cost_maps_
  /\ DOMAIN map_accessed_ = DOMAIN cost_maps_
  /\ \A a \in DOMAIN map_accessed_ : map_accessed_[a]

\* C4: the history holds no Area twice, the Areas of the history are the keys
\* of the tiles and the Areas marked accessed, and the history grows only by
\* the Area of a lookup that missed.
C4_StoreConsistent ==
  [][/\ ConsistentStore /\ ConsistentStore'
     /\ Len(generated_map_history_') > Len(generated_map_history_) =>
          /\ IsLookup(last') /\ last'.miss
          /\ last'.key \notin DOMAIN cost_maps_
          /\ generated_map_history_' = Append(generated_map_history_, last'.key)
  ]_vars

C4_Witness ==
  /\ last.op = "evict"
  /\ Len(last.evicted) > 0
  /\ Len(generated_map_history_) = max_map_count_
  /\ ConsistentStore

\* the value at2 reads from a tile
ValueOf(tile, px) == <<Gamma(tile[px][1]), tile[px][2]>>

\* C5: set_cloud, set_bounding_box and set_height leave the tile store alone;
\* a hit returns what the resident tile holds, stale or not, and only a miss
\* builds from the geometry loaded at that moment.
C5_SettersKeepTiles ==
  [][/\ last'.op \in {"set_cloud", "set_bounding_box", "set_height"} =>
          UNCHANGED store_vars
     /\ (cloud_' # cloud_ \/ bounding_boxes_' # bounding_boxes_ \/ height_' # height_) =>
          UNCHANGED store_vars
     /\ (last'.op = "at2" /\ ~last'.miss) =>
          /\ cost_maps_' = cost_maps_
          /\ last'.ret = ValueOf(cost_maps_[last'.key], last'.px)
     /\ (last'.op = "at2" /\ last'.miss) =>
          /\ cost_maps_'[last'.key] = BuildTile(last'.key, CurGeo)
          /\ last'.ret = ValueOf(BuildTile(last'.key, CurGeo), last'.px)
  ]_vars

\* a hit that returned the value of a stale tile: a tile built now would
\* give another value at that pixel
C5_Witness ==
  /\ last.op = "at2"
  /\ ~last.miss
  /\ last.ret = ValueOf(cost_maps_[last.key], last.px)
  /\ last.ret # ValueOf(BuildTile(last.key, CurGeo), last.px)

\* the two points lie in the same cell of the grid of edge u: some cell
\* [i * u, (i + 1) * u) x [j * u, (j + 1) * u) holds both
SameCell(p, q, u) ==
  \E i, j \in (-(MaxCoord + 1)) .. (MaxCoord + 1) :
    /\ i * u <= p[1] /\ p[1] < (i + 1) * u /\ i * u <= q[1] /\ q[1] < (i + 1) * u
    /\ j * u <= p[2] /\ p[2] < (j + 1) * u /\ j * u <= q[2] /\ q[2] < (j + 1) * u

\* C6 as stated: Area construction fails whenever unit_length_ or image_size_
\* is not strictly positive.
C6_Original ==
  (area_out # <<>> /\ (unit_length_ <= 0 \/ area_image_size_ <= 0)) =>
    (area_out[1].err /\ area_out[2].err)

\* C7: with unit_length_ > 0 the Areas of two points are equal exactly when
\* the points lie in the same grid cell, negative coordinates included, and
\* equal Areas have equal hashes.
C7_SameAreaIffSameCell ==
  (area_out # <<>> /\ unit_length_ > 0) =>
    /\ ~area_out[1].err /\ ~area_out[2].err
    /\ AreaEq(area_out[1], area_out[2]) <=> SameCell(area_in[1], area_in[2], unit_length_)
    /\ AreaEq(area_out[1], area_out[2]) => AreaHash(area_out[1]) = AreaHash(area_out[2])

\* two different points at negative coordinates with the same Area
C7_Witness ==
  /\ area_out # <<>> /\ unit_length_ > 0
  /\ area_in[1] # area_in[2]
  /\ area_in[1][1] < 0 /\ area_in[1][2] < 0
  /\ AreaEq(area_out[1], area_out[2])
  /\ area_out[1].x = -1

C9_PixelInRaster ==
  last.op \in {"at2", "at3"} =>
    /\ last.px \in Pixels
    /\ last.px[1] = Clamp(last.raw[1], 0, image_size_ - 1)
    /\ last.px[2] = Clamp(last.raw[2], 0, image_size_ - 1)
    /\ last.ret # OutOfRange

\* the computed pixel fell outside the raster at the upper tile edge
C9_Witness ==
  /\ last.op = "at2"
  /\ last.raw[1] = image_size_
  /\ last.px \in Pixels

\* C10: score_convert is monotone non-decreasing, maps -max_raw_score_ to
\* min_prob and max_raw_score_ to 1, and every weight it yields lies in
\* [min_prob, 1].
C10_WeightMonotoneBounded ==
  score_out # <<>> =>
    /\ score_in[1] <= score_in[2] => score_out[1] <= score_out[2]
    /\ score_in[1] = -max_raw_score_ => score_out[1] = min_prob_
    /\ score_in[1] = max_raw_score_ => score_out[1] = OneWeight
    /\ \A i \in {1, 2} : min_prob_ <= score_out[i] /\ score_out[i] <= OneWeight

\* a raw score below the range and one above it
C10_Witness ==
  /\ score_out # <<>>
  /\ score_in[1] < -max_raw_score_ /\ score_in[2] > max_raw_score_
  /\ score_out = <<min_prob_, OneWeight>>


---------------------------------------------------------------------------
(* The callbacks on the one cost map *)

LsdOps == {"lsd_score", "lsd_evict", "lsd_weighted", "lsd_skip", "lsd_markers", "lsd_debug"}

C12_EvictOncePerBatch ==
  /\ [](/\ pc = "score" => batch.evictions = 0
        /\ pc \in {"publish", "markers", "debug"} =>
             /\ batch.evictions = 1
             /\ idx = Len(weighted_particles) + 1
        /\ pc \in {"score", "publish"} => \A a \in Areas : batch.built[a] <= 1)
  /\ [][/\ last'.op = "lsd_score" =>
             /\ Resident \subseteq Resident'
             /\ \A a \in Resident : cost_maps_'[a] = cost_maps_[a]
             /\ \A a \in Areas : builds'[a] >= builds[a]
        /\ last'.op = "lsd_evict" =>
             /\ pc = "score" /\ idx > Len(weighted_particles) /\ pc' = "publish"
             /\ cost_maps_' = erase_obsolete(CurStore).maps
        /\ last'.op = "lsd_markers" => pc = "publish" \/ pc = "markers"
       ]_vars

\* a batch of two particles has touched three Areas, each built once, and its
\* single eviction has removed a tile
C12_Witness ==
  /\ pc = "publish"
  /\ Len(weighted_particles) = 2
  /\ last.op = "lsd_evict" /\ Len(last.evicted) > 0
  /\ Cardinality({a \in Areas : batch.built[a] = 1}) >= 3


---------------------------------------------------------------------------
(* World bounds of an Area *)

\* v lies in the half-open rectangle b = <<min, max>>
InBounds(v, b) ==
  /\ b[1][1] <= v[1] /\ v[1] < b[2][1]
  /\ b[1][2] <= v[2] /\ v[2] < b[2][2]

\* the half-open rectangles b and d share a point
Overlap(b, d) ==
  /\ b[1][1] < d[2][1] /\ d[1][1] < b[2][1]
  /\ b[1][2] < d[2][2] /\ d[1][2] < b[2][2]

\* C13: with unit_length_ > 0 every point lies in the world bounds of its
\* Area, min <= p < max with min = (x, y) * unit_length_ and
\* max = min + (unit_length_, unit_length_), negative coordinates included,
\* and the bounds of two distinct Areas do not overlap.
C13_PointInBounds ==
  (unit_length_ > 0 /\ area_out # <<>>) =>
     /\ \A i \in 1 .. 2 :
          LET b == real_scale_boundary(area_out[i], unit_length_) IN
            /\ ~area_out[i].err
            /\ b[1] = <<area_out[i].x * unit_length_, area_out[i].y * unit_length_>>
            /\ b[2] = <<b[1][1] + unit_length_, b[1][2] + unit_length_>>
            /\ InBounds(area_in[i], b)
     /\ ~AreaEq(area_out[1], area_out[2]) =>
          ~Overlap(real_scale_boundary(area_out[1], unit_length_),
                   real_scale_boundary(area_out[2], unit_length_))

\* two Areas constructed with unit_length_ = 3, one from a point with
\* negative coordinates on a tile edge and one from a point of the
\* tile above it
C13_Witness ==
  /\ unit_length_ = 3 /\ area_out # <<>>
  /\ area_in[1] = <<-3, -1>> /\ area_in[2] = <<-3, 2>>
  /\ ~AreaEq(area_out[1], area_out[2])


---------------------------------------------------------------------------
(* lsdCallback *)

\* C14: an lsdCallback that finds no synchronized particle array returns at
\* once: the tile store (tiles, accessed marks, history, builder runs), the
\* geometry, last_mean_position_ and the callback's locals stay as they were,
\* nothing is evicted and nothing is published.
C14_NoArrayNoEffect ==
  [][last'.op = "lsd_return" =>
       /\ UNCHANGED <<store_vars, geo_vars, lsd_vars>>
       /\ last'.ret = <<>> /\ last'.evicted = <<>> /\ ~last'.miss
       /\ pc' = "idle"
    ]_vars

\* lsdCallback has returned for want of an array while more than
\* max_map_count_ tiles were resident and the mean position had moved
C14_Witness ==
  /\ last.op = "lsd_return"
  /\ Cardinality(Resident) > max_map_count_
  /\ last_mean_position_ \notin InitialMeans


\* C15: lsdCallback hands the weighted array to the filter exactly when the
\* squared distance between the mean position of the batch and
\* last_mean_position_ exceeds 1; last_mean_position_ changes in that step and
\* in no other; either way the eviction has run before and the markers are
\* published next.
C15_HandOverIffMoved ==
  [][/\ pc = "publish" =>
          LET mean_position == meanPose(weighted_particles)
              moved == SquaredNorm(mean_position, last_mean_position_) > 1
          IN  /\ last'.op = (IF moved THEN "lsd_weighted" ELSE "lsd_skip")
              /\ moved => last'.ret = weighted_particles
                          /\ last_mean_position_' = mean_position
              /\ ~moved => last'.ret = <<>> /\ UNCHANGED last_mean_position_
              /\ batch.evictions = 1
              /\ pc' = "markers"
              /\ UNCHANGED <<store_vars, weighted_particles>>
     /\ pc = "markers" =>
          /\ last'.op = "lsd_markers"
          /\ last'.ret = show_map_range(CurStore)
          /\ last.op \in {"lsd_weighted", "lsd_skip"}
     /\ last'.op \in {"lsd_weighted", "lsd_skip"} => pc = "publish"
     /\ last_mean_position_' # last_mean_position_ => last'.op = "lsd_weighted"
    ]_vars

\* the markers have been published after a batch whose mean position was at
\* squared distance exactly 1 from last_mean_position_ and was not handed over
C15_Witness ==
  /\ last.op = "lsd_markers"
  /\ SquaredNorm(meanPose(weighted_particles), last_mean_position_) = 1
  /\ last_mean_position_ \notin InitialMeans


---------------------------------------------------------------------------
(* computeScore on degenerate segments *)

\* the segments of a cloud that have a length
NonDegenerate(cloud) == SelectSeq(cloud, LAMBDA f : f.p # f.n)

\* the zero-length segments of a cloud
Degenerate(cloud) == SelectSeq(cloud, LAMBDA f : f.p = f.n)

\* C16: computeScore skips a zero-length segment and goes on: a scoring round
\* looks up no position for it, its raw score and the tile store after it are
\* those of the cloud without the zero-length segments, and every segment
\* with a length is sampled from its start point.
C16_ZeroLengthSkipped ==
  [][last'.op = "lsd_score" =>
       LET pose == weighted_particles[idx].pose
           cloud == transformCloud(lsd_cloud, pose)
           r == computeScore(CurStore, CurGeo, NonDegenerate(cloud), pose)
       IN  /\ last'.ret = <<r.score>>
           /\ cost_maps_' = r.c.maps
           /\ generated_map_history_' = r.c.history
           /\ map_accessed_' = r.c.accessed
           /\ n_builds' = r.c.n
           /\ weighted_particles'[idx].weight = score_convert(r.score)
           /\ \A i \in 1 .. Len(cloud) :
                IF cloud[i].p = cloud[i].n
                THEN Samples(cloud[i]) = <<>>
                ELSE /\ Len(Samples(cloud[i])) >= 1
                     /\ Samples(cloud[i])[1] = cloud[i].p
           /\ Len(AllSamples(cloud)) = Len(AllSamples(NonDegenerate(cloud)))
    ]_vars

\* a particle has been scored on a cloud with a zero-length segment followed
\* by a segment with a length: the second segment has contributed to the raw
\* score and built its tiles, the tile of the zero-length segment's position
\* has not been built
C16_Witness ==
  /\ last.op = "lsd_score"
  /\ Len(Degenerate(lsd_cloud)) = 1 /\ lsd_cloud[1].p = lsd_cloud[1].n
  /\ Len(NonDegenerate(lsd_cloud)) = 1
  /\ geometry_loaded
  /\ last.ret # <<0>>
  /\ LET pose == weighted_particles[idx - 1].pose IN
       /\ AreaOf(transformCloud(lsd_cloud, pose)[1].p, max_range_) \notin Resident
       /\ AreaOf(transformCloud(lsd_cloud, pose)[2].p, max_range_) \in Resident


---------------------------------------------------------------------------
(* InitArea *)

RECURSIVE SameLabelPrefix(_, _)
\* the length of the longest prefix of pts whose points all carry label l
SameLabelPrefix(pts, l) ==
  IF pts = <<>> \/ Head(pts).label # l THEN 0 ELSE 1 + SameLabelPrefix(Tail(pts), l)

RECURSIVE MaximalRuns(_)
\* the maximal runs of consecutive points with one label, in order
MaximalRuns(pts) ==
  IF pts = <<>> THEN <<>>
  ELSE LET k == SameLabelPrefix(pts, Head(pts).label)
       IN  <<SubSeq(pts, 1, k)>> \o MaximalRuns(SubSeq(pts, k + 1, Len(pts)))

\* the outline a run of labelled points describes
OutlineOf(run) == [i \in 1 .. Len(run) |-> <<run[i].x, run[i].y>>]
OutlinesOf(runs) == [i \in 1 .. Len(runs) |-> OutlineOf(runs[i])]

\* C17: the constructor of InitArea makes one polygon per maximal run of
\* consecutive points with the same label, holding the points of that run in
\* order; the polygons of runs labelled below 512 are init_areas_, in the
\* order of the runs, the others deinit_areas_; no points, no polygon.
C17_PolygonPerRun ==
  constructed =>
    /\ init_areas_ =
         OutlinesOf(SelectSeq(MaximalRuns(points), LAMBDA r : r[1].label < 512))
    /\ deinit_areas_ =
         OutlinesOf(SelectSeq(MaximalRuns(points), LAMBDA r : r[1].label >= 512))
    /\ Len(init_areas_) + Len(deinit_areas_) =
         Cardinality({i \in 1 .. Len(points) : i = 1 \/ points[i - 1].label # points[i].label})
    /\ points = <<>> => init_areas_ = <<>> /\ deinit_areas_ = <<>>

\* constructed from a message of three runs, two of them on the init side of
\* the threshold with different labels and one labelled 512
C17_Witness ==
  /\ constructed
  /\ Len(init_areas_) = 2 /\ Len(deinit_areas_) = 1
  /\ points[1].label = 511 /\ points[Len(points)].label = 0
  /\ Len(init_areas_[1]) = 3

AllAreas == Range(init_areas_) \cup Range(deinit_areas_)

\* C18: is_inside returns true exactly when the query point is within some
\* stored polygon; on true *init_area says whether the point is within an
\* init polygon (also when it is within a deinit polygon as well); on false,
\* in particular with both lists empty, *init_area is what it was.
C18_IsInside ==
  inside_out # <<>> =>
    LET q == inside_out[1]
        ret == inside_out[2]
        before == inside_out[3]
    IN  /\ ret = (\E poly \in AllAreas : Within(q, poly))
        /\ ret => init_area = (\E poly \in Range(init_areas_) : Within(q, poly))
        /\ ~ret => init_area = before

\* is_inside has returned true and set *init_area, false before, for a point
\* within both an init polygon and a deinit polygon
C18_Witness ==
  /\ inside_out # <<>> /\ inside_out[2] = TRUE /\ inside_out[3] = FALSE
  /\ init_area = TRUE
  /\ \E poly \in Range(init_areas_) : Within(inside_out[1], poly)
  /\ \E poly \in Range(deinit_areas_) : Within(inside_out[1], poly)

=============================================================================
